---- MODULE Spec2Model ----
(***************************************************************************)
(* The browser automation daemon (browser-daemon.js): a relay between AI   *)
(* clients on a Unix socket and a polling executor (the Chrome extension)  *)
(* on HTTP.  State: the Correlation Table pendingRequests, the Command     *)
(* Queue commandQueue, the armed timers, each connection's line buffer,    *)
(* the bytes in flight to the daemon and the lines written back.           *)
(*                                                                         *)
(* Byte strings are sequences of symbols.  A JSON text is                  *)
(*     "{" [requestId] [success] [error] [text] "}"  |  "null"  |  "5"     *)
(* with optional blanks around it; every other string is a syntax error.   *)
(* The text member is a string of non-ASCII characters; on the wire each   *)
(* of them is two bytes.                                                   *)
(***************************************************************************)
EXTENDS Integers, Sequences, FiniteSets, TLC

\* ---------------------------------------------------------------- bounds
\* Bytes the clients write in one run, over all connections.
MaxBytes == 8

\* ---------------------------------------------------------------- values
Socks == {"A", "B"}

NL == "\n"
SP == " "
Undefined == "undefined"

IdSyms == {"r1", "r2", "r99"}
ClientIds == {"r1", "r2"}
FlagSyms == {"true", "false"}

TimeoutMessage == "Timeout waiting for extension response"
SyntaxMessage == "Unexpected token in JSON"
TypeMessage == "Cannot read properties of null (reading 'requestId')"
ExecutorMessage == "No active tab found"
UnknownTypeMessage == "Unknown message type"
ErrSyms == {TimeoutMessage, SyntaxMessage, TypeMessage, ExecutorMessage, UnknownTypeMessage}

\* The two bytes of the UTF-8 encoding of U+00E9, the character they decode
\* to, and the replacement character a decoder puts for a malformed sequence.
LeadByte == "0xC3"
ContByte == "0xA9"
Char == "U+00E9"
Replacement == "U+FFFD"
CharSyms == {Char, Replacement}

\* A parsed JSON value.  A member the text does not have reads as undefined;
\* text is the characters of the text member (none: no such member).
Obj(r, s, e) ==
  [kind |-> "object", requestId |-> r, success |-> s, error |-> e, text |-> <<>>]
NullValue ==
  [kind |-> "null", requestId |-> Undefined, success |-> Undefined, error |-> Undefined,
   text |-> <<>>]
NumValue ==
  [kind |-> "number", requestId |-> Undefined, success |-> Undefined, error |-> Undefined,
   text |-> <<>>]

\* Buffer.prototype.toString (UTF-8): a complete two-byte sequence decodes to
\* its character; a lead byte without its continuation byte, and a
\* continuation byte without its lead byte, decode to U+FFFD each.
RECURSIVE toString(_)
toString(data) ==
  IF data = <<>> THEN <<>>
  ELSE IF Len(data) >= 2 /\ data[1] = LeadByte /\ data[2] = ContByte
    THEN <<Char>> \o toString(SubSeq(data, 3, Len(data)))
  ELSE IF data[1] \in {LeadByte, ContByte}
    THEN <<Replacement>> \o toString(Tail(data))
  ELSE <<data[1]>> \o toString(Tail(data))

\* ---------------------------------------------------------------- JSON
\* String.prototype.trim: the text without its leading and trailing blanks.
Trim(t) ==
  LET idx == {i \in 1..Len(t) : t[i] # SP}
  IN IF idx = {} THEN <<>>
     ELSE LET lo == CHOOSE i \in idx : \A j \in idx : i <= j
              hi == CHOOSE i \in idx : \A j \in idx : j <= i
          IN SubSeq(t, lo, hi)

\* The members between the braces, in the one order the texts use.
Members(r, s, e) ==
  (IF r = Undefined THEN <<>> ELSE <<r>>)
  \o (IF s = Undefined THEN <<>> ELSE <<s>>)
  \o (IF e = Undefined THEN <<>> ELSE <<e>>)

\* JSON.parse: [ok |-> TRUE, value |-> v], or ok = FALSE for a SyntaxError.
JSONparse(text) ==
  LET t == Trim(text)
      in == SubSeq(t, 2, Len(t) - 1)
      pick(S) == IF \E i \in 1..Len(in) : in[i] \in S
                 THEN in[CHOOSE i \in 1..Len(in) : in[i] \in S]
                 ELSE Undefined
      v == [Obj(pick(IdSyms), pick(FlagSyms), pick(ErrSyms)) EXCEPT
              !.text = SelectSeq(in, LAMBDA x : x \in CharSyms)]
  IN IF t = <<"null">> THEN [ok |-> TRUE, value |-> NullValue]
     ELSE IF t = <<"5">> THEN [ok |-> TRUE, value |-> NumValue]
     ELSE IF /\ Len(t) >= 2 /\ t[1] = "{" /\ t[Len(t)] = "}"
             /\ in = Members(v.requestId, v.success, v.error) \o v.text
       THEN [ok |-> TRUE, value |-> v]
     ELSE [ok |-> FALSE, value |-> NullValue]

\* JSON.stringify: members that are undefined are left out.
JSONstringify(v) ==
  IF v.kind = "null" THEN <<"null">>
  ELSE IF v.kind = "number" THEN <<"5">>
  ELSE <<"{">> \o Members(v.requestId, v.success, v.error) \o v.text \o <<"}">>

\* ---------------------------------------------------------------- state
VARIABLES
  running,          \* the daemon process is alive
  wire,             \* per connection: bytes the client wrote, not yet read
  clientOpen,       \* per connection: the client has not closed it
  sent,             \* bytes written by the clients so far
  buffer,           \* per connection: the handler's `buffer`
  pendingRequests,  \* requestId -> [socket, timeout]
  commandQueue,     \* commands awaiting GET /poll
  timers,           \* armed timer handle -> [command, socket] of its closure
  nextHandle,       \* the next timer handle setTimeout returns
  written,          \* per connection: the socket.write calls, in order
  polled,           \* the commands GET /poll has returned, in order
  accepted,         \* the commands the listener has registered, in order
  httpResp,         \* the last HTTP response
  isPolling,        \* the extension's `isPolling`
  burst,            \* per pollOnce invocation: where it is, and its `command`
  cli               \* per connection: the state of the sendCommand promise

vars == <<running, wire, clientOpen, sent, buffer, pendingRequests, commandQueue,
          timers, nextHandle, written, polled, accepted, httpResp,
          isPolling, burst, cli>>

\* The state of the daemon's peers: the extension and the CLI.  The daemon's
\* handlers do not touch it.
peerVars == <<isPolling, burst, cli>>

\* The pollOnce invocations that can be alive at once (the alarm's and the
\* startup's).
Invocations == {1, 2}

\* An invocation of pollOnce that is not running (while one handles a command
\* its `command` is never null).
Idle == [pc |-> "idle", command |-> NullValue]

\* An HTTP response: the request it answers, the status, the body, and for
\* /health the two counts of the body.
Response(req, status, body, counts) ==
  [req |-> req, status |-> status, body |-> body, counts |-> counts]
NoResp == Response("none", 0, <<>>, <<>>)
EmptyMap == [x \in {} |-> 0]

Init ==
  /\ running = TRUE
  /\ wire = [c \in Socks |-> <<>>]
  /\ clientOpen = [c \in Socks |-> TRUE]
  /\ sent = 0
  /\ buffer = [c \in Socks |-> <<>>]
  /\ pendingRequests = EmptyMap
  /\ commandQueue = <<>>
  /\ timers = EmptyMap
  /\ nextHandle = 1
  /\ written = [c \in Socks |-> <<>>]
  /\ polled = <<>>
  /\ accepted = <<>>
  /\ httpResp = NoResp
  /\ isPolling = FALSE
  /\ burst = [t \in Invocations |-> Idle]
  /\ cli = [c \in Socks |-> "none"]

\* ---------------------------------------------------------------- maps
MapHas(m, k) == k \in DOMAIN m
MapSet(m, k, v) == [x \in (DOMAIN m) \cup {k} |-> IF x = k THEN v ELSE m[x]]
MapDelete(m, k) == [x \in (DOMAIN m) \ {k} |-> m[x]]

\* ------------------------------------------------- Inbound Listener
\* buffer.split('\n'): the pieces between the newlines, the last one being
\* what follows the last newline.
RECURSIVE SplitLines(_)
SplitLines(buf) ==
  IF \A i \in 1..Len(buf) : buf[i] # NL THEN <<buf>>
  ELSE LET k == CHOOSE i \in 1..Len(buf) :
                  buf[i] = NL /\ \A j \in 1..(i - 1) : buf[j] # NL
       IN <<SubSeq(buf, 1, k - 1)>> \o SplitLines(SubSeq(buf, k + 1, Len(buf)))

\* !line.trim()
IsBlank(line) == Trim(line) = <<>>

\* One socket.write call: the line written (without its newline), what wrote
\* it, the timer handle of the submission it answers (0: none), and whether
\* the client still had the connection open (a write to a closed connection
\* reaches nobody; the socket's 'error' handler logs it).
Write(text, via, h, open) == [text |-> text, via |-> via, handle |-> h, open |-> open]

\* The object the timer callback writes.
TimeoutResult(command) == Obj(command.requestId, "false", TimeoutMessage)

\* The object the catch block writes.
RejectResult(message) == Obj(Undefined, "false", message)

\* The object JSON.parse(line) returns: its value, its requestId, and, to tell
\* one object from another, the handle of its timer and its connection.
Command(value, h, c) == [value |-> value, requestId |-> value.requestId, obj |-> h, from |-> c]

\* setTimeout(() => {...}, 30000): a fresh handle whose closure holds the
\* command and the socket.
ArmTimer(st, command, c) ==
  [st EXCEPT !.timers = MapSet(@, st.nextHandle, [command |-> command, socket |-> c]),
             !.nextHandle = @ + 1]

\* Mutant: an entry set again keeps the socket it had.
SetPendingStaleSocket(pending, command, c, h) ==
  MapSet(pending, command.requestId,
         [socket |-> IF MapHas(pending, command.requestId)
                       THEN pending[command.requestId].socket ELSE c,
          timeout |-> h])

\* Mutant: a requestId that is in the table keeps its entry.
SetPendingKeepFirst(pending, command, c, h) ==
  IF MapHas(pending, command.requestId) THEN pending
  ELSE MapSet(pending, command.requestId, [socket |-> c, timeout |-> h])

\* pendingRequests.set(command.requestId, { socket, timeout })
SetPending(pending, command, c, h) ==
  MapSet(pending, command.requestId, [socket |-> c, timeout |-> h])

\* commandQueue.push(command)
Enqueue(queue, command) == Append(queue, command)

\* The catch block: the failure written to the socket.
Reject(st, message, h) ==
  [st EXCEPT !.out = Append(@, Write(JSONstringify(RejectResult(message)), "reject", h, st.open))]

\* Mutant: the command is pushed before it is registered, so null is queued
\* before command.requestId throws.
ProcessLinePushFirst(st, c, line) ==
  IF IsBlank(line) THEN st
  ELSE LET p == JSONparse(line)
           h == st.nextHandle
           command == Command(p.value, h, c)
           armed == ArmTimer(st, command, c)
           pushed == [armed EXCEPT !.commandQueue = Enqueue(@, command)]
       IN IF ~p.ok THEN Reject(st, SyntaxMessage, 0)
          ELSE IF p.value.kind = "null" THEN Reject(pushed, TypeMessage, h)
          ELSE [pushed EXCEPT !.pendingRequests = SetPending(@, command, c, h),
                              !.accepted = Append(@, command)]

\* The body of the for loop for one line.  st.out is what the handler has
\* written to the socket.  With command = null, command.requestId throws a
\* TypeError once the timer is armed, before the table and the queue change.
ProcessLine(st, c, line) ==
  IF IsBlank(line) THEN st
  ELSE LET p == JSONparse(line)
           h == st.nextHandle
           command == Command(p.value, h, c)
           armed == ArmTimer(st, command, c)
       IN IF ~p.ok THEN Reject(st, SyntaxMessage, 0)
          ELSE IF p.value.kind = "null" THEN Reject(armed, TypeMessage, h)
          ELSE [armed EXCEPT !.pendingRequests = SetPending(@, command, c, h),
                             !.commandQueue = Enqueue(@, command),
                             !.accepted = Append(@, command)]

\* for (const line of lines)
RECURSIVE ProcessLines(_, _, _)
ProcessLines(st, c, lines) ==
  IF lines = <<>> THEN st
  ELSE ProcessLines(ProcessLine(st, c, Head(lines)), c, Tail(lines))

\* The lines the clients write: a command with a requestId, null, and a
\* command cut short.
ClientLines ==
  {<<"{", r, "}">> : r \in ClientIds} \cup {<<"null">>, <<"{", "r1">>}

\* Lines for the framing: a command whose text member is one two-byte
\* character, a command without one, and two blank lines.
ChunkLines ==
  {<<"{", "r1", LeadByte, ContByte, "}">>, <<"{", "r2", "}">>, <<>>, <<SP>>}

\* A client writes one line and its newline to its connection.
ClientWrite(c, line) ==
  /\ running /\ clientOpen[c] /\ sent + Len(line) + 1 <= MaxBytes
  /\ wire' = [wire EXCEPT ![c] = @ \o line \o <<NL>>]
  /\ sent' = sent + Len(line) + 1
  /\ UNCHANGED <<running, clientOpen, buffer, pendingRequests, commandQueue, timers,
                 nextHandle, written, polled, accepted, httpResp>>

\* Mutant: the 'end' handler cancels the calls of the connection.
ClientEndCancels(c) ==
  /\ running /\ clientOpen[c]
  /\ clientOpen' = [clientOpen EXCEPT ![c] = FALSE]
  /\ LET mine == {id \in DOMAIN pendingRequests : pendingRequests[id].socket = c}
     IN /\ pendingRequests' = [id \in DOMAIN pendingRequests \ mine |-> pendingRequests[id]]
        /\ timers' = [h \in DOMAIN timers \ {pendingRequests[id].timeout : id \in mine}
                        |-> timers[h]]
  /\ UNCHANGED <<running, wire, sent, buffer, commandQueue,
                 nextHandle, written, polled, accepted, httpResp>>

\* The client closes its connection; the 'end' handler only logs.
ClientEnd(c) ==
  /\ running /\ clientOpen[c]
  /\ clientOpen' = [clientOpen EXCEPT ![c] = FALSE]
  /\ UNCHANGED <<running, wire, sent, buffer, pendingRequests, commandQueue, timers,
                 nextHandle, written, polled, accepted, httpResp>>

\* buffer += data.toString(); lines = buffer.split('\n'): the lines a chunk
\* completes are all pieces but the last.
CompleteLines(buf, data) ==
  LET lines == SplitLines(buf \o toString(data)) IN SubSeq(lines, 1, Len(lines) - 1)

\* buffer = lines.pop()
Remainder(buf, data) ==
  LET lines == SplitLines(buf \o toString(data)) IN lines[Len(lines)]

\* socket.on('data'): the next n bytes of the stream arrive as one chunk.
SocketData(c, n) ==
  /\ running /\ n \in 1..Len(wire[c])
  /\ LET data == SubSeq(wire[c], 1, n)
         st0 == [pendingRequests |-> pendingRequests, commandQueue |-> commandQueue,
                 timers |-> timers, nextHandle |-> nextHandle, out |-> written[c],
                 accepted |-> accepted, open |-> clientOpen[c]]
     IN \E lines \in {CompleteLines(buffer[c], data)} :
        \E st \in {ProcessLines(st0, c, lines)} :
        /\ wire' = [wire EXCEPT ![c] = SubSeq(@, n + 1, Len(@))]
        /\ buffer' = [buffer EXCEPT ![c] = Remainder(buffer[c], data)]
        /\ pendingRequests' = st.pendingRequests
        /\ commandQueue' = st.commandQueue
        /\ timers' = st.timers
        /\ nextHandle' = st.nextHandle
        /\ written' = [written EXCEPT ![c] = st.out]
        /\ accepted' = st.accepted
  /\ UNCHANGED <<running, clientOpen, sent, polled, httpResp>>

\* ------------------------------------------------- Timeout Supervisor
\* Mutant: the callback writes the failure without looking the entry up.
TimeoutCallbackNoCheck(st, h) ==
  LET cl == st.timers[h]
  IN [st EXCEPT !.pendingRequests = MapDelete(@, cl.command.requestId),
                !.out = Append(@, Write(JSONstringify(TimeoutResult(cl.command)),
                                        "timeout", h, st.open))]

\* Mutant: the callback writes the failure and leaves the entry in the table.
TimeoutCallbackNoDelete(st, h) ==
  LET cl == st.timers[h]
  IN IF MapHas(st.pendingRequests, cl.command.requestId)
       THEN [st EXCEPT !.out = Append(@, Write(JSONstringify(TimeoutResult(cl.command)),
                                               "timeout", h, st.open))]
     ELSE st

\* The timer callback of handle h, when its command is not null.
TimeoutCallback(st, h) ==
  LET cl == st.timers[h]
  IN IF MapHas(st.pendingRequests, cl.command.requestId)
       THEN [st EXCEPT !.pendingRequests = MapDelete(@, cl.command.requestId),
                       !.out = Append(@, Write(JSONstringify(TimeoutResult(cl.command)),
                                               "timeout", h, st.open))]
     ELSE st

\* Mutant: a timer that finds its entry also drops the command from the
\* queue.
TimerFirePurges(h) ==
  /\ running /\ h \in DOMAIN timers
  /\ \A g \in DOMAIN timers : h <= g
  /\ LET c == timers[h].socket
         st0 == [pendingRequests |-> pendingRequests, timers |-> timers, out |-> written[c],
                 open |-> clientOpen[c]]
         st == TimeoutCallback(st0, h)
     IN IF timers[h].command.value.kind = "null"
          THEN /\ running' = FALSE
               /\ UNCHANGED <<pendingRequests, written, commandQueue>>
        ELSE /\ pendingRequests' = st.pendingRequests
             /\ written' = [written EXCEPT ![c] = st.out]
             /\ commandQueue' = IF st.out = written[c] THEN commandQueue
                                ELSE SelectSeq(commandQueue, LAMBDA cmd : cmd.obj # h)
             /\ UNCHANGED running
  /\ timers' = MapDelete(timers, h)
  /\ UNCHANGED <<wire, clientOpen, sent, buffer, nextHandle, polled, accepted, httpResp>>

\* The timer of handle h expires.  Every timer is armed for the same 30000
\* ms, so the armed timers expire in the order they were armed.  With
\* command = null the callback throws outside any try block and the process
\* dies.
TimerFire(h) ==
  /\ running /\ h \in DOMAIN timers
  /\ \A g \in DOMAIN timers : h <= g
  /\ LET c == timers[h].socket
         st0 == [pendingRequests |-> pendingRequests, timers |-> timers, out |-> written[c],
                 open |-> clientOpen[c]]
         st == TimeoutCallback(st0, h)
     IN IF timers[h].command.value.kind = "null"
          THEN /\ running' = FALSE
               /\ UNCHANGED <<pendingRequests, written>>
        ELSE /\ pendingRequests' = st.pendingRequests
             /\ written' = [written EXCEPT ![c] = st.out]
             /\ UNCHANGED running
  /\ timers' = MapDelete(timers, h)
  /\ UNCHANGED <<wire, clientOpen, sent, buffer, commandQueue, nextHandle, polled,
                 accepted, httpResp>>

\* ------------------------------------------------- HTTP server
\* res.writeHead(500) in the catch block.
ErrorStatus == 500

\* Mutant: pop() instead of shift().
ShiftLast(queue) ==
  [command |-> queue[Len(queue)], rest |-> SubSeq(queue, 1, Len(queue) - 1)]

\* Mutant: the poll empties the queue.
ShiftAll(queue) == [command |-> Head(queue), rest |-> <<>>]

\* Mutant: the poll returns the head and leaves it in the queue.
ShiftPeek(queue) == [command |-> Head(queue), rest |-> queue]

\* commandQueue.shift(): the command it returns and what is left of the queue.
Shift(queue) == [command |-> Head(queue), rest |-> Tail(queue)]

\* Mutant: the relay serves no poll while a call awaits its Result.
PollWhenIdle ==
  /\ running /\ pendingRequests = EmptyMap
  /\ httpResp' = Response("GET /poll", 204, <<>>, <<>>)
  /\ UNCHANGED <<running, wire, clientOpen, sent, buffer, pendingRequests, commandQueue,
                 timers, nextHandle, written, polled, accepted>>

\* Mutant: a poll that finds the queue empty is answered with an error.
PollEmptyError ==
  /\ running
  /\ IF Len(commandQueue) > 0
       THEN LET s == Shift(commandQueue)
            IN /\ commandQueue' = s.rest
               /\ polled' = Append(polled, s.command)
               /\ httpResp' = Response("GET /poll", 200, JSONstringify(s.command.value), <<>>)
     ELSE /\ httpResp' = Response("GET /poll", ErrorStatus, <<>>, <<>>)
          /\ UNCHANGED <<commandQueue, polled>>
  /\ UNCHANGED <<running, wire, clientOpen, sent, buffer, pendingRequests, timers,
                 nextHandle, written, accepted>>

\* GET /poll
Poll ==
  /\ running
  /\ IF Len(commandQueue) > 0
       THEN LET s == Shift(commandQueue)
            IN /\ commandQueue' = s.rest
               /\ polled' = Append(polled, s.command)
               /\ httpResp' = Response("GET /poll", 200, JSONstringify(s.command.value), <<>>)
     ELSE /\ httpResp' = Response("GET /poll", 204, <<>>, <<>>)
          /\ UNCHANGED <<commandQueue, polled>>
  /\ UNCHANGED <<running, wire, clientOpen, sent, buffer, pendingRequests, timers,
                 nextHandle, written, accepted>>

\* The socket a posted response is written to, when its requestId is found
\* (without an entry nothing is written to any socket).
Target(pending, response) == pending[response.requestId].socket

\* Mutant: the timer is not cleared.
HandleResponseNoClear(st, response) ==
  IF MapHas(st.pendingRequests, response.requestId)
    THEN LET e == st.pendingRequests[response.requestId]
         IN [st EXCEPT !.pendingRequests = MapDelete(@, response.requestId),
                       !.out = Append(@, Write(JSONstringify(response), "response", e.timeout, st.open))]
  ELSE st

\* Mutant: a completion that finds no entry drops the queued commands of its
\* requestId.
HandleResponsePurge(st, response) ==
  IF MapHas(st.pendingRequests, response.requestId)
    THEN LET e == st.pendingRequests[response.requestId]
         IN [st EXCEPT !.timers = MapDelete(@, e.timeout),
                       !.pendingRequests = MapDelete(@, response.requestId),
                       !.out = Append(@, Write(JSONstringify(response), "response", e.timeout, st.open))]
  ELSE LET Other(cmd) == cmd.requestId # response.requestId
       IN [st EXCEPT !.commandQueue = SelectSeq(@, Other)]

\* Mutant: a completion takes the commands of its requestId out of the queue.
HandleResponseDequeue(st, response) ==
  IF MapHas(st.pendingRequests, response.requestId)
    THEN LET e == st.pendingRequests[response.requestId]
             Other(cmd) == cmd.requestId # response.requestId
         IN [st EXCEPT !.timers = MapDelete(@, e.timeout),
                       !.pendingRequests = MapDelete(@, response.requestId),
                       !.commandQueue = SelectSeq(@, Other),
                       !.out = Append(@, Write(JSONstringify(response), "response", e.timeout, st.open))]
  ELSE st

\* POST /response after JSON.parse: with the requestId in the table,
\* clearTimeout, delete and socket.write; without, nothing.  st.out is what
\* has been written to the socket of the entry.
HandleResponse(st, response) ==
  IF MapHas(st.pendingRequests, response.requestId)
    THEN LET e == st.pendingRequests[response.requestId]
         IN [st EXCEPT !.timers = MapDelete(@, e.timeout),
                       !.pendingRequests = MapDelete(@, response.requestId),
                       !.out = Append(@, Write(JSONstringify(response), "response", e.timeout, st.open))]
  ELSE st

\* Mutant: an unknown requestId is answered 404.
ResponseStatusNotFound(found) == IF found THEN 200 ELSE 404

\* res.writeHead(200) after the lookup, whatever it found.
ResponseStatus(found) == 200

\* The body can be processed: JSON.parse returns and `const { requestId } =
\* response` does not throw.
Processable(p) == p.ok /\ p.value.kind # "null"

\* The bodies the executor posts: a success for each id, one with an id no
\* client uses, a failure, null, and a body cut short.
Bodies ==
  {<<"{", r, "true", "}">> : r \in IdSyms} \cup
  {<<"{", "r1", "false", ExecutorMessage, "}">>, <<"null">>, <<"{", "r1">>}

\* POST /response
PostResponse(body) ==
  /\ running
  /\ \E p \in {JSONparse(body)} :
        IF ~Processable(p)
          THEN /\ httpResp' = Response("POST /response", ErrorStatus,
                                       <<IF p.ok THEN TypeMessage ELSE SyntaxMessage>>, <<>>)
               /\ UNCHANGED <<pendingRequests, timers, written, commandQueue>>
        ELSE LET response == p.value
                 found == MapHas(pendingRequests, response.requestId)
                 c == IF found THEN Target(pendingRequests, response) ELSE "A"
                 st0 == [pendingRequests |-> pendingRequests, timers |-> timers,
                         commandQueue |-> commandQueue, out |-> written[c],
                         open |-> clientOpen[c]]
             IN \E st \in {HandleResponse(st0, response)} :
                /\ pendingRequests' = st.pendingRequests
                /\ timers' = st.timers
                /\ commandQueue' = st.commandQueue
                /\ written' = [written EXCEPT ![c] = st.out]
                /\ httpResp' = Response("POST /response", ResponseStatus(found), <<"OK">>, <<>>)
  /\ UNCHANGED <<running, wire, clientOpen, sent, buffer, nextHandle, polled, accepted>>

\* Mutant: /health counts the armed timers as the pending calls.
HealthCountsTimers ==
  /\ running
  /\ httpResp' = Response("GET /health", 200, <<"ok">>,
                          <<Cardinality(DOMAIN timers), Len(commandQueue)>>)
  /\ UNCHANGED <<running, wire, clientOpen, sent, buffer, pendingRequests, commandQueue,
                 timers, nextHandle, written, polled, accepted>>

\* GET /health
Health ==
  /\ running
  /\ httpResp' = Response("GET /health", 200, <<"ok">>,
                          <<Cardinality(DOMAIN pendingRequests), Len(commandQueue)>>)
  /\ UNCHANGED <<running, wire, clientOpen, sent, buffer, pendingRequests, commandQueue,
                 timers, nextHandle, written, polled, accepted>>

\* Any other method or URL
NotFound ==
  /\ running
  /\ httpResp' = Response("other", 404, <<"Not found">>, <<>>)
  /\ UNCHANGED <<running, wire, clientOpen, sent, buffer, pendingRequests, commandQueue,
                 timers, nextHandle, written, polled, accepted>>

\* ------------------------------------------------- the CLI
\* The cases of the switch in sendCommand, and the names a caller passes.
CliCommands == {"navigate", "query", "click", "type", "screenshot", "get_tabs",
                "open_tab", "close_tab"}
CliNames == {"navigate", "get_tabs", "frobnicate"}

\* Mutant: the command is written before the switch looks at its name.
CliSendWritesFirst(c, command, r) ==
  /\ cli[c] = "none"
  /\ ClientWrite(c, <<"{", r, "}">>)
  /\ cli' = [cli EXCEPT ![c] = IF command \in CliCommands THEN "waiting"
                                 ELSE "rejected: unknown command"]
  /\ UNCHANGED <<isPolling, burst>>

\* sendCommand: the connect callback writes the command, with requestId
\* Date.now(), and its newline; the socket's 30000 ms idle timer runs from
\* this write.  With a name that is no case of the switch the callback
\* rejects the promise and returns before client.write; the connection stays
\* open.
CliSend(c, command, r) ==
  /\ cli[c] = "none"
  /\ IF command \in CliCommands
       THEN /\ ClientWrite(c, <<"{", r, "}">>)
            /\ cli' = [cli EXCEPT ![c] = "waiting"]
     ELSE /\ running /\ clientOpen[c]
          /\ cli' = [cli EXCEPT ![c] = "rejected: unknown command"]
          /\ UNCHANGED <<running, wire, clientOpen, sent, buffer, pendingRequests,
                         commandQueue, timers, nextHandle, written, polled, accepted,
                         httpResp>>
  /\ UNCHANGED <<isPolling, burst>>

\* client.on('data'): a line of the daemon has arrived; it parses, so the
\* client ends the connection and the promise resolves with it.
CliData(c) ==
  /\ cli[c] = "waiting" /\ written[c] # <<>> /\ written[c][1].open
  /\ JSONparse(written[c][1].text).ok
  /\ cli' = [cli EXCEPT ![c] = "resolved"]
  /\ clientOpen' = [clientOpen EXCEPT ![c] = FALSE]
  /\ UNCHANGED <<running, wire, sent, buffer, pendingRequests, commandQueue, timers,
                 nextHandle, written, polled, accepted, httpResp, isPolling, burst>>

\* client.setTimeout(30000, ...): nothing has arrived for 30000 ms after the
\* write; the client destroys the socket and the promise is rejected with
\* 'Command timeout'.  By then the daemon has long read the line; its timer
\* for the command runs in another process from the receipt of the line, so
\* either timer may be the first.
CliTimeout(c) ==
  /\ cli[c] = "waiting" /\ wire[c] = <<>>
  /\ cli' = [cli EXCEPT ![c] = "rejected"]
  /\ clientOpen' = [clientOpen EXCEPT ![c] = FALSE]
  /\ UNCHANGED <<running, wire, sent, buffer, pendingRequests, commandQueue, timers,
                 nextHandle, written, polled, accepted, httpResp, isPolling, burst>>

\* ------------------------------------------------- restart
\* Mutant: a restarted daemon queues the commands of the calls that were
\* pending again.
RestartRequeue ==
  /\ running' = TRUE
  /\ pendingRequests' = EmptyMap
  /\ commandQueue' = SelectSeq(accepted, LAMBDA cmd :
                         /\ MapHas(pendingRequests, cmd.requestId)
                         /\ pendingRequests[cmd.requestId].timeout = cmd.obj)
  /\ timers' = EmptyMap
  /\ buffer' = [c \in Socks |-> <<>>]
  /\ wire' = [c \in Socks |-> <<>>]
  /\ UNCHANGED <<clientOpen, sent, nextHandle, written, polled, accepted, httpResp>>

\* The daemon process ends (process.exit on SIGTERM or SIGINT, or a crash)
\* and is started again: `pendingRequests` and `commandQueue` are created
\* empty, the timers and the sockets of the old process, with their buffers
\* and the bytes in flight, are gone.  Clients may connect again.
Restart ==
  /\ running' = TRUE
  /\ pendingRequests' = EmptyMap
  /\ commandQueue' = <<>>
  /\ timers' = EmptyMap
  /\ buffer' = [c \in Socks |-> <<>>]
  /\ wire' = [c \in Socks |-> <<>>]
  /\ UNCHANGED <<clientOpen, sent, nextHandle, written, polled, accepted, httpResp>>

\* ------------------------------------------------- the extension
\* The message types handleMessage knows.
KnownTypes == {"navigate", "query", "click", "type", "screenshot", "get_tabs",
               "open_tab", "close_tab", "get_session"}

\* The `type` member of a pulled command.  The relay never reads it and the
\* texts of this model leave it out, so it is drawn when the extension reads
\* the command: two known types, one unknown, and none.
MsgTypes == {"navigate", "get_tabs", "frobnicate", Undefined}

\* Mutant: the failure result does not carry the requestId.
handleMessageNoId(message, msgType, fails) ==
  IF msgType \notin KnownTypes THEN Obj(Undefined, "false", UnknownTypeMessage)
  ELSE IF fails THEN Obj(Undefined, "false", ExecutorMessage)
  ELSE Obj(message.requestId, "true", Undefined)

\* handleMessage: the result for a message of type msgType whose command
\* function throws (fails) or returns.  The default branch throws inside the
\* try block, so an unknown type ends in the catch block as well.
handleMessage(message, msgType, fails) ==
  IF msgType \notin KnownTypes THEN Obj(message.requestId, "false", UnknownTypeMessage)
  ELSE IF fails THEN Obj(message.requestId, "false", ExecutorMessage)
  ELSE Obj(message.requestId, "true", Undefined)

\* pollDaemon has received a command: the last response is a 200 to GET /poll.
Holding == httpResp.req = "GET /poll" /\ httpResp.status = 200

\* pollDaemon: fetch(`${DAEMON_URL}/poll`), when no command is being handled.
ExtensionPoll == ~Holding /\ Poll

\* pollDaemon: command = await response.json(), result = await
\* handleMessage(command), and the POST of JSON.stringify(result).
ExtensionRespond(msgType, fails) ==
  /\ Holding
  /\ \E command \in {JSONparse(httpResp.body).value} :
       \E result \in {handleMessage(command, msgType, fails)} :
         PostResponse(JSONstringify(result))

\* ------------------------------------------------- the poll bursts
\* The state of the daemon and its connections.
relayVars == <<running, wire, clientOpen, sent, buffer, pendingRequests, commandQueue,
               timers, nextHandle, written, polled, accepted, httpResp>>

\* Mutant: pollOnce starts a burst whether or not one is running.
PollOnceNoGuard(t) ==
  /\ burst[t].pc = "idle"
  /\ isPolling' = TRUE
  /\ burst' = [burst EXCEPT ![t].pc = "loop"]
  /\ UNCHANGED <<relayVars, cli>>

\* pollOnce, called by the alarm, at startup or at installation: it returns
\* at once when isPolling is set, and sets it and enters the loop otherwise.
\* Nothing is awaited between the test and the assignment.
PollOnce(t) ==
  /\ burst[t].pc = "idle"
  /\ IF isPolling THEN UNCHANGED <<isPolling, burst>>
     ELSE /\ isPolling' = TRUE
          /\ burst' = [burst EXCEPT ![t].pc = "loop"]
  /\ UNCHANGED <<relayVars, cli>>

\* Mutant: the loop polls again while handleMessage is still awaited.
BurstPollEager(t) ==
  /\ burst[t].pc \in {"loop", "handling"}
  /\ Poll
  /\ burst' = [burst EXCEPT ![t] =
                 IF httpResp'.status = 200
                   THEN [pc |-> "handling", command |-> JSONparse(httpResp'.body).value]
                 ELSE @]
  /\ UNCHANGED <<isPolling, cli>>

\* One pollDaemon of the loop, up to the response of GET /poll: with 200 the
\* command is response.json(), with 204 the loop sleeps and goes round.
BurstPoll(t) ==
  /\ burst[t].pc = "loop"
  /\ Poll
  /\ burst' = [burst EXCEPT ![t] =
                 IF httpResp'.status = 200
                   THEN [pc |-> "handling", command |-> JSONparse(httpResp'.body).value]
                 ELSE @]
  /\ UNCHANGED <<isPolling, cli>>

\* The rest of pollDaemon: handleMessage(command) settles and its result is
\* posted.
BurstRespond(t, msgType, fails) ==
  /\ burst[t].pc = "handling"
  /\ \E result \in {handleMessage(burst[t].command, msgType, fails)} :
       PostResponse(JSONstringify(result))
  /\ burst' = [burst EXCEPT ![t] = [pc |-> "loop", command |-> NullValue]]
  /\ UNCHANGED <<isPolling, cli>>

\* navigate awaits a promise that only a tabs.onUpdated event with status
\* 'complete' resolves, without a timeout: when no such event comes,
\* handleMessage never settles and the invocation stays where it is.
BurstHang(t) ==
  /\ burst[t].pc = "handling"
  /\ burst' = [burst EXCEPT ![t].pc = "hung"]
  /\ UNCHANGED <<relayVars, isPolling, cli>>

\* The daemon is gone when the result is posted: both fetches are rejected,
\* pollDaemon's outer catch returns false and the loop goes round.
BurstPostFails(t) ==
  /\ burst[t].pc = "handling" /\ ~running
  /\ burst' = [burst EXCEPT ![t] = [pc |-> "loop", command |-> NullValue]]
  /\ UNCHANGED <<relayVars, isPolling, cli>>

\* The loop test finds Date.now() >= burstEnd; the finally block clears
\* isPolling.
BurstEnd(t) ==
  /\ burst[t].pc = "loop"
  /\ isPolling' = FALSE
  /\ burst' = [burst EXCEPT ![t] = Idle]
  /\ UNCHANGED <<relayVars, cli>>

\* ------------------------------------------------- specification
Next ==
  \/ \E c \in Socks, line \in ClientLines : ClientWrite(c, line) /\ UNCHANGED peerVars
  \/ \E c \in Socks : \E n \in 1..Len(wire[c]) : SocketData(c, n) /\ UNCHANGED peerVars
  \/ \E h \in DOMAIN timers : TimerFire(h) /\ UNCHANGED peerVars
  \/ Poll /\ UNCHANGED peerVars
  \/ \E body \in Bodies : PostResponse(body) /\ UNCHANGED peerVars
  \/ Health /\ UNCHANGED peerVars
  \/ NotFound /\ UNCHANGED peerVars

Spec == Init /\ [][Next]_vars

\* The same with an executor that keeps polling: a poll that can return a
\* command is not put off forever.
SpecFair == Init /\ [][Next]_vars /\ WF_vars(Poll /\ UNCHANGED peerVars)

\* The Inbound Listener alone: clients write lines, and the bytes arrive in
\* chunks of any size.
NextChunks ==
  \/ \E c \in Socks, line \in ChunkLines : ClientWrite(c, line) /\ UNCHANGED peerVars
  \/ \E c \in Socks : \E n \in 1..Len(wire[c]) : SocketData(c, n) /\ UNCHANGED peerVars

SpecChunks == Init /\ [][NextChunks]_vars

\* The relay with clients and an executor that also send JSON texts that are
\* not objects: the lines are a command for r1 and a number, the bodies a
\* result for r1, a number, null, and a text cut short.
OddLines == {<<"{", "r1", "}">>, <<"5">>}
OddBodies == {<<"{", "r1", "true", "}">>, <<"5">>, <<"null">>, <<"{", "r1">>}

NextOdd ==
  \/ \E c \in Socks, line \in OddLines : ClientWrite(c, line) /\ UNCHANGED peerVars
  \/ \E c \in Socks : \E n \in 1..Len(wire[c]) : SocketData(c, n) /\ UNCHANGED peerVars
  \/ \E h \in DOMAIN timers : TimerFire(h) /\ UNCHANGED peerVars
  \/ \E body \in OddBodies : PostResponse(body) /\ UNCHANGED peerVars

SpecOdd == Init /\ [][NextOdd]_vars

\* The relay with its timers running: an armed timer whose delay has passed
\* fires; the executor is free to poll and to respond or not.
SpecTimers ==
  Init /\ [][Next]_vars /\ WF_vars((\E h \in DOMAIN timers : TimerFire(h)) /\ UNCHANGED peerVars)

\* The relay with the extension as its executor: it polls, handles the
\* command it pulled and posts the result before it polls again.
NextExt ==
  \/ \E c \in Socks, line \in ClientLines : ClientWrite(c, line) /\ UNCHANGED peerVars
  \/ \E c \in Socks : \E n \in 1..Len(wire[c]) : SocketData(c, n) /\ UNCHANGED peerVars
  \/ \E h \in DOMAIN timers : TimerFire(h) /\ UNCHANGED peerVars
  \/ ExtensionPoll /\ UNCHANGED peerVars
  \/ \E msgType \in MsgTypes, fails \in BOOLEAN : ExtensionRespond(msgType, fails) /\ UNCHANGED peerVars

SpecExt == Init /\ [][NextExt]_vars

\* The relay with the extension's poll bursts as its executor.
NextBurst ==
  \/ \E c \in Socks, line \in ClientLines : ClientWrite(c, line) /\ UNCHANGED peerVars
  \/ \E c \in Socks : \E n \in 1..Len(wire[c]) : SocketData(c, n) /\ UNCHANGED peerVars
  \/ \E h \in DOMAIN timers : TimerFire(h) /\ UNCHANGED peerVars
  \/ \E t \in Invocations : PollOnce(t)
  \/ \E t \in Invocations : BurstPoll(t)
  \/ \E t \in Invocations, msgType \in MsgTypes, fails \in BOOLEAN :
       BurstRespond(t, msgType, fails)
  \/ \E t \in Invocations : BurstHang(t)
  \/ \E t \in Invocations : BurstPostFails(t)
  \/ \E t \in Invocations : BurstEnd(t)

SpecBurst == Init /\ [][NextBurst]_vars

\* The same with time passing and promises settling: a loop that keeps
\* going round reaches its burstEnd, a result that can be posted is posted,
\* and a rejected fetch is caught.
SpecBurstFair ==
  /\ Init /\ [][NextBurst]_vars
  /\ \A t \in Invocations :
       /\ SF_vars(BurstEnd(t))
       /\ WF_vars(\E msgType \in MsgTypes, fails \in BOOLEAN : BurstRespond(t, msgType, fails))
       /\ WF_vars(BurstPostFails(t))

\* The relay with CLI invocations as its clients and an executor that polls
\* and never completes a command.
NextCli ==
  \/ \E c \in Socks, command \in CliNames, r \in ClientIds : CliSend(c, command, r)
  \/ \E c \in Socks : \E n \in 1..Len(wire[c]) : SocketData(c, n) /\ UNCHANGED peerVars
  \/ \E h \in DOMAIN timers : TimerFire(h) /\ UNCHANGED peerVars
  \/ Poll /\ UNCHANGED peerVars
  \/ \E c \in Socks : CliData(c)
  \/ \E c \in Socks : CliTimeout(c)

SpecCli == Init /\ [][NextCli]_vars

\* The relay with a daemon that is stopped and started again, without the
\* requests that read or change nothing of the relay.
NextRestart ==
  \/ \E c \in Socks, line \in ClientLines : ClientWrite(c, line) /\ UNCHANGED peerVars
  \/ \E c \in Socks : \E n \in 1..Len(wire[c]) : SocketData(c, n) /\ UNCHANGED peerVars
  \/ \E h \in DOMAIN timers : TimerFire(h) /\ UNCHANGED peerVars
  \/ Poll /\ UNCHANGED peerVars
  \/ \E body \in Bodies : PostResponse(body) /\ UNCHANGED peerVars
  \/ Restart /\ UNCHANGED peerVars

SpecRestart == Init /\ [][NextRestart]_vars

\* The connections whose client closes: the listener treats all connections
\* alike, so the one that closes is called A.
Closers == {"A"}

\* The relay with clients that close their connections, without the requests
\* that read or change nothing of the relay (/health, unknown URLs).
NextEnd ==
  \/ \E c \in Socks, line \in ClientLines : ClientWrite(c, line) /\ UNCHANGED peerVars
  \/ \E c \in Closers : ClientEnd(c) /\ UNCHANGED peerVars
  \/ \E c \in Socks : \E n \in 1..Len(wire[c]) : SocketData(c, n) /\ UNCHANGED peerVars
  \/ \E h \in DOMAIN timers : TimerFire(h) /\ UNCHANGED peerVars
  \/ Poll /\ UNCHANGED peerVars
  \/ \E body \in Bodies : PostResponse(body) /\ UNCHANGED peerVars

SpecEnd == Init /\ [][NextEnd]_vars

\* ------------------------------------------------- claims: helpers
\* Every socket.write call so far, as <<connection, position>>.
AllWrites == UNION {{<<c, i>> : i \in 1..Len(written[c])} : c \in Socks}

TotalWrites == Cardinality(AllWrites)

\* The Results written for the submission whose timer handle is h.
ResultsFor(h) ==
  {w \in AllWrites : /\ written[w[1]][w[2]].handle = h
                     /\ written[w[1]][w[2]].via \in {"response", "timeout"}}

\* The value a written line parses to.
Parsed(w) == JSONparse(w.text).value

\* C1 (the claim as stated): every submission the listener accepted whose
\* timer is no longer armed, or whose daemon has died, has had a Result
\* written to the connection that submitted it.
C1_EveryAcceptedGetsResult ==
  \A k \in 1..Len(accepted) :
    (~running \/ accepted[k].obj \notin DOMAIN timers) =>
      \E i \in 1..Len(written[accepted[k].from]) :
        /\ written[accepted[k].from][i].handle = accepted[k].obj
        /\ written[accepted[k].from][i].via \in {"response", "timeout"}

\* C2: no submission receives more than one Result: never an executor
\* Result and a timeout failure, in either order.
C2_AtMostOneResult ==
  \A h \in 1..(nextHandle - 1) : Cardinality(ResultsFor(h)) <= 1

\* One connection has received the executor's Result for a requestId and,
\* later, a timeout failure for a later submission with the same requestId.
C2_Witness ==
  \E c \in Socks : \E i, j \in 1..Len(written[c]) :
    /\ i < j
    /\ written[c][i].via = "response" /\ written[c][j].via = "timeout"
    /\ Parsed(written[c][i]).requestId = Parsed(written[c][j]).requestId
    /\ written[c][i].handle # written[c][j].handle

\* What a step that looks up key must do: with the entry present, remove it
\* and write one line; with it absent, write nothing and leave the table and
\* the queue alone.
ResolvesOnce(key) ==
  IF MapHas(pendingRequests, key)
    THEN ~MapHas(pendingRequests', key) /\ TotalWrites' = TotalWrites + 1
  ELSE UNCHANGED <<pendingRequests, commandQueue, written>>

\* C3: a timer fire and a completion both decide by the table: the one that
\* finds the entry removes it and writes, the one that does not changes
\* nothing.
C3_ResolveOnce ==
  [][/\ \A h \in DOMAIN timers :
          (TimerFire(h) /\ timers[h].command.value.kind # "null")
            => ResolvesOnce(timers[h].command.requestId)
     /\ \A body \in Bodies :
          (PostResponse(body) /\ Processable(JSONparse(body)))
            => ResolvesOnce(JSONparse(body).value.requestId)]_vars

\* The timer won: its failure is written, no executor Result ever was, and a
\* completion has since been answered with the table empty.
C3_Witness ==
  /\ httpResp.req = "POST /response" /\ httpResp.status = 200
  /\ pendingRequests = EmptyMap
  /\ \E w \in AllWrites : written[w[1]][w[2]].via = "timeout"
  /\ \A w \in AllWrites : written[w[1]][w[2]].via # "response"

\* C4: the commands the polls have returned are, in order, the first
\* commands the listener accepted, and the queue holds the rest in order.
C4_GlobalFifo ==
  /\ Len(polled) <= Len(accepted)
  /\ polled = SubSeq(accepted, 1, Len(polled))
  /\ commandQueue = SubSeq(accepted, Len(polled) + 1, Len(accepted))

\* Two polls have returned commands of two different connections.
C4_Witness ==
  /\ Len(polled) = 2
  /\ polled[1].from # polled[2].from

\* C5: a posted Result whose requestId is in the table is written to the
\* connection of the submission that made the entry, as posted, and to no
\* other connection.
C5_ResultToSubmitter ==
  [][\A body \in Bodies :
       LET p == JSONparse(body) IN
       (PostResponse(body) /\ Processable(p) /\ MapHas(pendingRequests, p.value.requestId)) =>
         LET e == pendingRequests[p.value.requestId]
             old == written[e.socket]
             new == written'[e.socket]
         IN /\ \A c \in Socks \ {e.socket} : written'[c] = written[c]
            /\ Len(new) = Len(old) + 1
            /\ SubSeq(new, 1, Len(old)) = old
            /\ Parsed(new[Len(new)]) = p.value
            /\ \E k \in 1..Len(accepted) :
                 /\ accepted[k].obj = e.timeout
                 /\ accepted[k].from = e.socket
                 /\ accepted[k].requestId = p.value.requestId]_vars

\* B has received an executor-reported failure while A has submitted too.
C5_Witness ==
  /\ \E i \in 1..Len(written["B"]) :
       /\ written["B"][i].via = "response"
       /\ Parsed(written["B"][i]).success = "false"
       /\ Parsed(written["B"][i]).error = ExecutorMessage
  /\ \E k \in 1..Len(accepted) : accepted[k].from = "A"

\* C6: a completion whose requestId is not in the table writes nothing and
\* leaves the table, the timers and the queue as they are.
C6_UnknownCompletionNoOp ==
  [][\A body \in Bodies :
       LET p == JSONparse(body) IN
       (PostResponse(body) /\ Processable(p) /\ ~MapHas(pendingRequests, p.value.requestId)) =>
         UNCHANGED <<written, pendingRequests, timers, commandQueue>>]_vars

\* A completion has been answered while the command of a call that has
\* already timed out is still queued and nothing is in the table.
C6_Witness ==
  /\ httpResp.req = "POST /response" /\ httpResp.status = 200
  /\ pendingRequests = EmptyMap
  /\ Len(commandQueue) = 1
  /\ \E i \in 1..Len(written[commandQueue[1].from]) :
       /\ written[commandQueue[1].from][i].via = "timeout"
       /\ written[commandQueue[1].from][i].handle = commandQueue[1].obj

\* C7 (the claim as stated): every POST /response is answered 200.
C7_AlwaysOk ==
  httpResp.req = "POST /response" => httpResp.status = 200

\* C7 (amended): a POST /response whose body can be processed is answered
\* 200, whether or not its requestId is in the table; one whose body cannot
\* is answered 500.
C7_OkWhenProcessable ==
  [][\A body \in Bodies :
       PostResponse(body) =>
         /\ httpResp'.req = "POST /response"
         /\ httpResp'.status = IF Processable(JSONparse(body)) THEN 200 ELSE 500]_vars

\* A completion has been answered 200 though no command was ever accepted.
C7_Witness ==
  /\ httpResp.req = "POST /response" /\ httpResp.status = 200
  /\ accepted = <<>>

\* The message the claim gives for the timeout failure.
ClaimedTimeoutMessage == "Timeout waiting for executor response"

\* What C8 asks of the step in which the timer of a call still in the table
\* expires, for the error message msg.
TimeoutPath(msg) ==
  \A h \in DOMAIN timers :
    LET key == timers[h].command.requestId
        c == timers[h].socket
    IN (/\ TimerFire(h)
        /\ timers[h].command.value.kind # "null"
        /\ MapHas(pendingRequests, key)
        /\ pendingRequests[key].timeout = h) =>
         /\ ~MapHas(pendingRequests', key)
         /\ c = pendingRequests[key].socket
         /\ Len(written'[c]) = Len(written[c]) + 1
         /\ SubSeq(written'[c], 1, Len(written[c])) = written[c]
         /\ written'[c][Len(written'[c])].text = <<"{", key, "false", msg, "}">>

\* C8 (the claim as stated): the failure written carries the error "Timeout
\* waiting for executor response".
C8_TimeoutPathExecutorMessage == [][TimeoutPath(ClaimedTimeoutMessage)]_vars

\* C8 (amended): when the timer of a call still in the table expires, the
\* entry is removed in the same step and {requestId, success:false,
\* error:"Timeout waiting for extension response"} is written to the client.
C8_TimeoutPath == [][TimeoutPath(TimeoutMessage)]_vars

\* B has received the timeout failure for r2 and r2 is no longer in the table.
C8_Witness ==
  /\ ~MapHas(pendingRequests, "r2")
  /\ \E i \in 1..Len(written["B"]) :
       /\ written["B"][i].via = "timeout"
       /\ Parsed(written["B"][i]) = Obj("r2", "false", TimeoutMessage)

\* The lines of a chunk that are rejected, and those that are registered.
IsRejected(line) == ~IsBlank(line) /\ ~Processable(JSONparse(line))
IsRegistered(line) == ~IsBlank(line) /\ Processable(JSONparse(line))

\* C9: every malformed line of a chunk is answered, in the step that reads
\* the chunk, with a failure on the connection it came from, and only the
\* well-formed lines enter the table and the queue.
C9_MalformedRejected ==
  [][\A c \in Socks : \A n \in 1..Len(wire[c]) :
       SocketData(c, n) =>
         LET lines == CompleteLines(buffer[c], SubSeq(wire[c], 1, n))
             bad == SelectSeq(lines, IsRejected)
             good == SelectSeq(lines, IsRegistered)
             old == Len(written[c])
             q == Len(commandQueue)
         IN /\ Len(written'[c]) = old + Len(bad)
            /\ \A i \in 1..Len(bad) :
                 /\ written'[c][old + i].via = "reject"
                 /\ Parsed(written'[c][old + i]).success = "false"
                 /\ Parsed(written'[c][old + i]).error \in {SyntaxMessage, TypeMessage}
            /\ \A d \in Socks \ {c} : written'[d] = written[d]
            /\ Len(commandQueue') = q + Len(good)
            /\ \A i \in 1..Len(good) :
                 /\ commandQueue'[q + i].value = JSONparse(good[i]).value
                 /\ commandQueue'[q + i].from = c
            /\ DOMAIN pendingRequests' =
                 DOMAIN pendingRequests \cup
                   {JSONparse(good[i]).value.requestId : i \in 1..Len(good)}]_vars

\* B has been answered with a failure for a malformed line, and the one
\* command accepted is the only one queued and the only one in the table.
C9_Witness ==
  /\ \E i \in 1..Len(written["B"]) : written["B"][i].via = "reject"
  /\ Len(accepted) = 1 /\ commandQueue = accepted
  /\ Cardinality(DOMAIN pendingRequests) = 1

\* C10: GET /poll on a non-empty queue returns the head command and removes
\* it and nothing else: the rest of the queue stays, in order.
C10_PollTakesHead ==
  [][(Poll /\ Len(commandQueue) > 0) =>
       /\ commandQueue' = Tail(commandQueue)
       /\ Len(commandQueue') = Len(commandQueue) - 1
       /\ polled' = Append(polled, Head(commandQueue))
       /\ httpResp' = Response("GET /poll", 200,
                               JSONstringify(Head(commandQueue).value), <<>>)]_vars

\* A poll has returned one command of a queue of two and the other is left.
C10_Witness ==
  /\ httpResp.req = "GET /poll" /\ httpResp.status = 200
  /\ Len(polled) = 1 /\ Len(commandQueue) = 1
  /\ httpResp.body = JSONstringify(polled[1].value)

\* C11: GET /poll on an empty queue is always possible while the daemon runs
\* (it does not wait for a command), is answered 204 with an empty body, and
\* leaves the queue and the table as they are.
C11_EmptyPollNoCommand ==
  /\ []((running /\ Len(commandQueue) = 0) => ENABLED Poll)
  /\ [][(Poll /\ Len(commandQueue) = 0) =>
          /\ httpResp' = Response("GET /poll", 204, <<>>, <<>>)
          /\ UNCHANGED <<commandQueue, pendingRequests, timers, polled, written>>]_vars

\* A poll has been answered 204 after the only command was polled, with its
\* call still in the table.
C11_Witness ==
  /\ httpResp.req = "GET /poll" /\ httpResp.status = 204
  /\ Len(polled) = 1 /\ commandQueue = <<>>
  /\ Cardinality(DOMAIN pendingRequests) = 1

\* The command whose timer handle is h is in the queue, and has been
\* returned by a poll.
InQueue(h) == \E i \in 1..Len(commandQueue) : commandQueue[i].obj = h
Returned(h) == \E i \in 1..Len(polled) : polled[i].obj = h

\* C12 (the claim as stated): with an executor that keeps polling, every
\* command that entered the queue is eventually returned by a poll.
C12_NoStarvation ==
  \A h \in 1..(MaxBytes \div 2) : InQueue(h) ~> Returned(h)

\* How often the command whose timer handle is h occurs in the queue and
\* among the commands the polls have returned.
Occurrences(h) ==
  Cardinality({i \in 1..Len(commandQueue) : commandQueue[i].obj = h})
    + Cardinality({i \in 1..Len(polled) : polled[i].obj = h})

\* C13: every accepted command is either still queued, once, or has been
\* returned by exactly one poll; nothing puts it back in the queue, so no two
\* polls return the same entry.
C13_HandedOverAtMostOnce ==
  /\ \A k \in 1..Len(accepted) : Occurrences(accepted[k].obj) = 1
  /\ \A h \in 1..(nextHandle - 1) :
       Occurrences(h) > 0 => \E k \in 1..Len(accepted) : accepted[k].obj = h

\* The one command polled has timed out, and a later poll found the queue
\* empty.
C13_Witness ==
  /\ httpResp.req = "GET /poll" /\ httpResp.status = 204
  /\ Len(polled) = 1 /\ commandQueue = <<>>
  /\ \E i \in 1..Len(written[polled[1].from]) :
       /\ written[polled[1].from][i].via = "timeout"
       /\ written[polled[1].from][i].handle = polled[1].obj

\* The submission accepted k-th still has its own entry in the table and its
\* own armed timer.
Tracked(k) ==
  /\ accepted[k].obj \in DOMAIN timers
  /\ MapHas(pendingRequests, accepted[k].requestId)
  /\ pendingRequests[accepted[k].requestId].timeout = accepted[k].obj

\* C14 (the claim as stated): of the commands one connection has submitted,
\* each one that has had no Result yet still has its own PendingCall and
\* timer, whatever happened to the others.
C14_PipelinedIndependent ==
  \A c \in Socks :
    (\A k \in 1..Len(accepted) : accepted[k].from = c) =>
      \A k \in 1..Len(accepted) : ResultsFor(accepted[k].obj) = {} => Tracked(k)

\* C15 (the claim as stated): the timer of every entry of the table is
\* armed, and every armed timer is the timer of an entry of the table.
C15_OneTimerPerPendingCall ==
  /\ \A id \in DOMAIN pendingRequests : pendingRequests[id].timeout \in DOMAIN timers
  /\ \A h \in DOMAIN timers :
       \E id \in DOMAIN pendingRequests : pendingRequests[id].timeout = h

\* A step that writes on behalf of key writes to the socket stored in the
\* entry of key, and to no other, and removes that entry.
WritesToStoredHandle(key) ==
  written' # written =>
    /\ MapHas(pendingRequests, key)
    /\ ~MapHas(pendingRequests', key)
    /\ \A c \in Socks \ {pendingRequests[key].socket} : written'[c] = written[c]

\* C16 (the claim as stated): every Result a completion or a timer fire
\* writes goes to the handle stored in the table entry the step removes.
C16_TableHoldsHandles ==
  [][/\ \A h \in DOMAIN timers :
          TimerFire(h) => WritesToStoredHandle(timers[h].command.requestId)
     /\ \A body \in Bodies :
          PostResponse(body) => WritesToStoredHandle(JSONparse(body).value.requestId)]_vars

\* The relay state a disconnect must leave alone.
RelayState == <<running, pendingRequests, timers, commandQueue, buffer, polled, written>>

\* C17: a client closing its connection removes no PendingCall, cancels no
\* timer and removes no queued command; its commands are still returned by
\* polls, and a later timer fire or completion for one of its calls removes
\* the entry and its timer as for an open connection, the write reaching
\* nobody and nothing else of the relay changing.
C17_DisconnectIsNotCancel ==
  [][/\ \A c \in Socks : ClientEnd(c) => UNCHANGED RelayState
     /\ (Poll /\ Len(commandQueue) > 0 /\ ~clientOpen[Head(commandQueue).from]) =>
          polled' = Append(polled, Head(commandQueue))
     /\ \A h \in DOMAIN timers :
          LET key == timers[h].command.requestId
              c == timers[h].socket
          IN (/\ TimerFire(h) /\ ~clientOpen[c]
              /\ timers[h].command.value.kind # "null"
              /\ MapHas(pendingRequests, key)) =>
               /\ pendingRequests' = MapDelete(pendingRequests, key)
               /\ timers' = MapDelete(timers, h)
               /\ Len(written'[c]) = Len(written[c]) + 1
               /\ ~written'[c][Len(written'[c])].open
               /\ UNCHANGED <<running, commandQueue, buffer, polled>>
     /\ \A body \in Bodies :
          LET p == JSONparse(body) IN
          (/\ PostResponse(body) /\ Processable(p)
           /\ MapHas(pendingRequests, p.value.requestId)
           /\ ~clientOpen[pendingRequests[p.value.requestId].socket]) =>
            LET e == pendingRequests[p.value.requestId]
            IN /\ pendingRequests' = MapDelete(pendingRequests, p.value.requestId)
               /\ timers' = MapDelete(timers, e.timeout)
               /\ Len(written'[e.socket]) = Len(written[e.socket]) + 1
               /\ ~written'[e.socket][Len(written'[e.socket])].open
               /\ httpResp'.status = 200
               /\ UNCHANGED <<running, commandQueue, buffer, polled>>]_vars

\* A closed its connection with a call pending; the command was polled and
\* the executor's Result was written to the closed connection; a call of A
\* made before has timed out the same way.
C17_Witness ==
  /\ ~clientOpen["A"]
  /\ \E i \in 1..Len(polled) : polled[i].from = "A"
  /\ \E i \in 1..Len(written["A"]) :
       written["A"][i].via = "response" /\ ~written["A"][i].open
  /\ \E i \in 1..Len(written["A"]) :
       written["A"][i].via = "timeout" /\ ~written["A"][i].open
  /\ pendingRequests = EmptyMap

\* C18: while a call is in the table the daemon still reads whatever any
\* connection has sent, still serves GET /poll and still serves every POST
\* /response: no handler waits for a pending call.
C18_PendingDoesNotBlock ==
  (running /\ pendingRequests # EmptyMap) =>
    /\ \A c \in Socks : \A n \in 1..Len(wire[c]) : ENABLED SocketData(c, n)
    /\ ENABLED Poll
    /\ \A body \in Bodies : ENABLED PostResponse(body)

\* With the call of A still in the table, the command B submitted after it
\* has been accepted and B has received the executor's Result for it.
C18_Witness ==
  /\ Len(accepted) = 2 /\ Len(polled) = 2
  /\ accepted[1].from = "A" /\ accepted[2].from = "B"
  /\ Tracked(1)
  /\ \E i \in 1..Len(written["B"]) :
       written["B"][i].via = "response" /\ written["B"][i].handle = accepted[2].obj

\* C19: GET /health answers 200 with the number of entries of the table and
\* the length of the queue as they are when it is served, and changes
\* neither, nor the timers, nor what the clients have been written.
C19_HealthReportsCounts ==
  [][Health =>
       /\ httpResp'.req = "GET /health" /\ httpResp'.status = 200
       /\ httpResp'.counts = <<Cardinality(DOMAIN pendingRequests), Len(commandQueue)>>
       /\ UNCHANGED <<pendingRequests, commandQueue, timers, written, polled>>]_vars

\* /health has reported one pending call and an empty queue while two
\* timers are armed and one command has been polled.
C19_Witness ==
  /\ httpResp.req = "GET /health" /\ httpResp.counts = <<1, 0>>
  /\ Cardinality(DOMAIN pendingRequests) = 1 /\ commandQueue = <<>>
  /\ Cardinality(DOMAIN timers) = 2 /\ Len(polled) = 1

C22_CliGetsDaemonTimeout ==
  \A c \in Socks :
    /\ cli[c] # "rejected"
    /\ cli[c] = "resolved" =>
         /\ Parsed(written[c][1]).success = "false"
         /\ Parsed(written[c][1]).error = TimeoutMessage

\* The pollOnce invocations that are inside their burst.
InBurst == {t \in Invocations : burst[t].pc # "idle"}

\* C23: at most one pollOnce invocation is inside its burst, and isPolling is
\* set exactly while one is; a pollOnce called while isPolling is set returns
\* without polling and changes nothing; a burst polls only while no other
\* invocation is inside a burst.
C23_OneBurstAtATime ==
  /\ [](Cardinality(InBurst) <= 1 /\ (isPolling <=> InBurst # {}))
  /\ [][\A t \in Invocations :
          /\ (PollOnce(t) /\ isPolling) => UNCHANGED vars
          /\ BurstPoll(t) => InBurst = {t}]_vars

\* One invocation is handling the second command it pulled while the other
\* invocation is not in a burst.
C23_Witness ==
  /\ isPolling /\ Len(polled) = 2
  /\ burst[1].pc = "handling" /\ burst[2].pc = "idle"

\* C24 (the claim as stated): whenever isPolling is set it is eventually
\* cleared, so a later alarm can start a new burst.
C24_BurstEnds == isPolling ~> ~isPolling

\* C25: a burst issues GET /poll only while no invocation is handling a
\* command, and the result a burst posts is for the command pulled last: the
\* completions are posted in the order the commands were pulled.
C25_OneCommandAtATime ==
  [][\A t \in Invocations :
       /\ BurstPoll(t) => \A u \in Invocations : burst[u].pc \notin {"handling", "hung"}
       /\ \A msgType \in MsgTypes, fails \in BOOLEAN :
            BurstRespond(t, msgType, fails) =>
              /\ Len(polled) > 0
              /\ burst[t].command = polled[Len(polled)].value
              /\ \A u \in Invocations \ {t} : burst[u].pc = "idle"]_vars

\* The extension has pulled two commands, the first one's result has
\* reached its client and the second is being handled.
C25_Witness ==
  /\ Len(polled) = 2
  /\ \E t \in Invocations : burst[t].pc = "handling" /\ burst[t].command = polled[2].value
  /\ \E i \in 1..Len(written[polled[1].from]) :
       /\ written[polled[1].from][i].via = "response"
       /\ written[polled[1].from][i].handle = polled[1].obj

\* The timeout failure has been written for the submission of handle h.
TimedOut(h) ==
  \E w \in AllWrites : written[w[1]][w[2]].via = "timeout" /\ written[w[1]][w[2]].handle = h

\* C26: a timer fire changes neither the queue nor what has been polled; a
\* command whose call has timed out before any poll returned it is still in
\* the queue, and the poll that finds it at the head returns it.
C26_TimeoutLeavesQueue ==
  /\ [](\A k \in 1..Len(accepted) :
          (TimedOut(accepted[k].obj) /\ ~Returned(accepted[k].obj)) =>
            InQueue(accepted[k].obj))
  /\ [][/\ \A h \in DOMAIN timers : TimerFire(h) => UNCHANGED <<commandQueue, polled>>
        /\ (Poll /\ Len(commandQueue) > 0 /\ TimedOut(Head(commandQueue).obj)) =>
             /\ polled' = Append(polled, Head(commandQueue))
             /\ httpResp'.status = 200
             /\ httpResp'.body = JSONstringify(Head(commandQueue).value)]_vars

\* No poll has returned a command yet, two calls have timed out and both
\* their commands are still queued, with the daemon running.
C26_Witness ==
  /\ running /\ polled = <<>> /\ Len(commandQueue) = 2
  /\ TimedOut(commandQueue[1].obj) /\ TimedOut(commandQueue[2].obj)

\* C27 (the claim as stated): a chunk whose lines are all answered with the
\* immediate failure leaves the armed timers, the table and the queue as
\* they were.
C27_RejectedHasNoEffect ==
  [][\A c \in Socks : \A n \in 1..Len(wire[c]) :
       LET lines == CompleteLines(buffer[c], SubSeq(wire[c], 1, n))
       IN (/\ SocketData(c, n)
           /\ SelectSeq(lines, IsRejected) # <<>>
           /\ SelectSeq(lines, IsRegistered) = <<>>) =>
            UNCHANGED <<timers, pendingRequests, commandQueue>>]_vars

\* C28: a data step cancels no timer and accepts every well-formed line,
\* also one whose requestId is in the table; afterwards the entry of each
\* requestId submitted in the step holds the connection of the step and the
\* timer armed for the last submission of that requestId, and the entries of
\* the other requestIds are as before.
C28_DuplicateReplaces ==
  [][\A c \in Socks : \A n \in 1..Len(wire[c]) :
       SocketData(c, n) =>
         LET lines == CompleteLines(buffer[c], SubSeq(wire[c], 1, n))
             good == SelectSeq(lines, IsRegistered)
             ids == {JSONparse(good[i]).value.requestId : i \in 1..Len(good)}
             fresh == DOMAIN timers' \ DOMAIN timers
         IN /\ \A h \in DOMAIN timers : h \in DOMAIN timers' /\ timers'[h] = timers[h]
            /\ Len(accepted') = Len(accepted) + Len(good)
            /\ \A id \in DOMAIN pendingRequests \ ids :
                 MapHas(pendingRequests', id) /\ pendingRequests'[id] = pendingRequests[id]
            /\ \A id \in ids :
                 /\ MapHas(pendingRequests', id)
                 /\ pendingRequests'[id].socket = c
                 /\ pendingRequests'[id].timeout \in fresh
                 /\ timers'[pendingRequests'[id].timeout].command.requestId = id
                 /\ \A h \in fresh :
                      timers'[h].command.requestId = id => h <= pendingRequests'[id].timeout]_vars

\* A submitted r1 and then B submitted r1: the entry of r1 holds B and the
\* second timer, and the first timer is still armed.
C28_Witness ==
  /\ Len(accepted) = 2
  /\ accepted[1].from = "A" /\ accepted[2].from = "B"
  /\ accepted[1].requestId = "r1" /\ accepted[2].requestId = "r1"
  /\ MapHas(pendingRequests, "r1")
  /\ pendingRequests["r1"] = [socket |-> "B", timeout |-> accepted[2].obj]
  /\ accepted[1].obj \in DOMAIN timers

\* C29: every entry of the correlation table is eventually removed: a
\* requestId that is in the table is later not in it, whatever the executor
\* does.
C29_EveryEntryRemoved ==
  \A id \in IdSyms : MapHas(pendingRequests, id) ~> ~MapHas(pendingRequests, id)

\* C30: the sequence of admitted commands does not depend on the chunking:
\* a data step that reads n bytes as one chunk admits the commands, in the
\* order, that reading the first k of these bytes and then the other n - k
\* admits, for every k, and leaves the same commands in the queue.
C30_ChunkingIndependent ==
  [][\A c \in Socks : \A n \in 1..Len(wire[c]) :
       SocketData(c, n) =>
         \A k \in 1..(n - 1) :
           LET st0 == [pendingRequests |-> pendingRequests, commandQueue |-> commandQueue,
                       timers |-> timers, nextHandle |-> nextHandle, out |-> written[c],
                       accepted |-> accepted, open |-> clientOpen[c]]
               first == SubSeq(wire[c], 1, k)
               rest == SubSeq(wire[c], k + 1, n)
               st1 == ProcessLines(st0, c, CompleteLines(buffer[c], first))
               st2 == ProcessLines(st1, c, CompleteLines(Remainder(buffer[c], first), rest))
           IN /\ accepted' = st2.accepted
              /\ commandQueue' = st2.commandQueue]_vars

\* The body is an object: JSON.parse returns, and what it returns is an
\* object.
IsObjectBody(body) == JSONparse(body).ok /\ JSONparse(body).value.kind = "object"

\* C31: a POST /response whose body is not valid JSON or not an object is
\* answered with the error status, and the table, the timers, the queue and
\* what has been written to the clients are as before.
C31_BadBodyHasNoEffect ==
  [][\A body \in OddBodies :
       (PostResponse(body) /\ ~IsObjectBody(body)) =>
         /\ httpResp'.status = ErrorStatus
         /\ UNCHANGED <<pendingRequests, timers, commandQueue, written>>]_vars

\* The submission of handle h has been completed by a posted response.
Completed(h) ==
  \E w \in AllWrites : written[w[1]][w[2]].via = "response" /\ written[w[1]][w[2]].handle = h

\* C32: GET /poll changes neither the table nor any timer, and POST /response
\* does not change the queue; a response whose requestId is in the table
\* takes the entry out, clears its timer and is written to its socket, also
\* when the command of the entry is still in the queue.
C32_EndpointsDisjoint ==
  [][/\ Poll => UNCHANGED <<pendingRequests, timers, written>>
     /\ \A body \in Bodies :
          PostResponse(body) =>
            /\ UNCHANGED <<commandQueue, polled>>
            /\ \A id \in DOMAIN pendingRequests :
                 (Processable(JSONparse(body)) /\ JSONparse(body).value.requestId = id) =>
                   LET e == pendingRequests[id]
                   IN /\ ~MapHas(pendingRequests', id)
                      /\ e.timeout \notin DOMAIN timers'
                      /\ Len(written'[e.socket]) = Len(written[e.socket]) + 1
                      /\ written'[e.socket][Len(written'[e.socket])].via = "response"
                      /\ written'[e.socket][Len(written'[e.socket])].handle = e.timeout]_vars

\* A submission has been completed while its command is still in the queue,
\* before any poll.
C32_Witness ==
  /\ polled = <<>>
  /\ \E h \in 1..(nextHandle - 1) : Completed(h) /\ InQueue(h)

\* C33: a CLI call whose command name is no case of the switch rejects its
\* promise and changes nothing of the connection or the relay; the connection
\* of such a call never carries a byte, and no command, table entry or timer
\* comes from it.
C33_UnknownCommandNotSent ==
  /\ [][\A c \in Socks, command \in CliNames \ CliCommands, r \in ClientIds :
          CliSend(c, command, r) =>
            /\ cli'[c] = "rejected: unknown command"
            /\ UNCHANGED <<wire, sent, buffer, pendingRequests, commandQueue, timers,
                           accepted, written>>]_vars
  /\ [](\A c \in Socks :
          cli[c] = "rejected: unknown command" =>
            /\ wire[c] = <<>> /\ buffer[c] = <<>> /\ written[c] = <<>>
            /\ \A i \in 1..Len(accepted) : accepted[i].from # c
            /\ \A i \in 1..Len(commandQueue) : commandQueue[i].from # c
            /\ \A id \in DOMAIN pendingRequests : pendingRequests[id].socket # c
            /\ \A h \in DOMAIN timers : timers[h].socket # c)

\* The call on A had an unknown name and was rejected, while the call on B
\* was sent and its command is in the table.
C33_Witness ==
  /\ cli["A"] = "rejected: unknown command"
  /\ cli["B"] = "waiting"
  /\ \E id \in DOMAIN pendingRequests : pendingRequests[id].socket = "B"

====
